---- MODULE Spec2Model ----
(***************************************************************************)
(* go-scpi: a client for SCPI instruments over TCP.                        *)
(*                                                                         *)
(* The model covers TCPClient (client.go, the current revision at lines    *)
(* 171-281), confirmError (errors.go) and Handler (handler.go, lines       *)
(* 1-154).  One goroutine, the caller, issues the operations one after    *)
(* another; WaitForComplete starts one worker goroutine per call.  Every   *)
(* conn.Write and conn.Read is one step.  The                              *)
(* instrument at the other end of the connection is the environment: it    *)
(* takes the lines written to the connection in order, keeps a FIFO error  *)
(* queue and answers queries.                                              *)
(*                                                                         *)
(* Commands and wire lines are strings; replies are sequences of           *)
(* characters, because confirmError looks into them.                       *)
(*                                                                         *)
(* Specifications: Spec (and FairSpec) is the client with the instrument;  *)
(* QueueSpec is Exec, BulkExec and Query with an instrument that records   *)
(* which line generated each fault; DecodeSpec is the verification of an   *)
(* Exec reading any text; PeerSpec is Query with a peer whose responses    *)
(* may exceed the receive buffer; HandlerSpec is the Handler's operations  *)
(* (handler.go) with the instrument.                                       *)
(***************************************************************************)
EXTENDS Integers, Sequences, FiniteSets, TLC

(***************************************************************************)
(* Bounds of the model.                                                    *)
(***************************************************************************)
MaxCalls == 2      \* operations the caller issues in one behaviour
MaxWorkers == 1    \* WaitForComplete calls (one worker goroutine each)
MaxBulk == 2       \* commands passed to one BulkExec
MaxFaults == 1     \* faults the instrument queues for one received line
MaxMsg == 2        \* characters in the message of an error report

(***************************************************************************)
(* Goroutines: the caller and the workers of WaitForComplete.              *)
(***************************************************************************)
Caller == 0
Workers == 1..MaxWorkers
Procs == {Caller} \cup Workers

(***************************************************************************)
(* Program constants.                                                      *)
(***************************************************************************)
Terminator == "\n"
ErrQuery == "SYST:ERR?"
OpcQuery == "*WAI;*OPC?"
Separator == ";"
BufSize == 1024
Unbuffered == Len(<<>>)    \* make(chan error): a channel without a buffer
ChanCap == 1

(***************************************************************************)
(* Inputs: the commands a caller passes.                                   *)
(***************************************************************************)
PlainCmds == {"CONF"}
QueryCmds == {"MEAS?"}
Cmds == PlainCmds \cup QueryCmds
BulkArgs == UNION {[1..n -> Cmds] : n \in 0..MaxBulk}

(***************************************************************************)
(* strings.Join(cmds, sep)                                                 *)
(***************************************************************************)
RECURSIVE Join(_, _)
Join(cmds, sep) ==
    IF cmds = <<>> THEN ""
    ELSE IF Len(cmds) = 1 THEN cmds[1]
    ELSE cmds[1] \o sep \o Join(Tail(cmds), sep)

(***************************************************************************)
(* Texts the instrument sends.                                             *)
(***************************************************************************)
NoErrorText ==
    <<"+","0",",","\"","N","o"," ","e","r","r","o","r","\"","\n">>
QuotedFault ==
    <<"-","1","0","1",",","\"","I","n","v","a","l","i","d","\"","\n">>
UnquotedFault ==
    <<"-","1","0","1",","," ","I","n","v","a","l","i","d","\n">>
FaultTexts == {QuotedFault, UnquotedFault}
OpcText == <<"1","\n">>
MeasText == <<"+","4","2","\n">>

(***************************************************************************)
(* errors.go: cmdErrRegexp = ([+-]\d+),\"(.*?)\" and confirmError.         *)
(***************************************************************************)
Digits == <<"0","1","2","3","4","5","6","7","8","9">>
IsDigit(c) == \E d \in 1..10 : Digits[d] = c
DigitVal(c) == (CHOOSE d \in 1..10 : Digits[d] = c) - 1

UpperCase == <<"A","B","C","D","E","F","G","H","I","J","K","L","M",
               "N","O","P","Q","R","S","T","U","V","W","X","Y","Z">>
LowerCase == <<"a","b","c","d","e","f","g","h","i","j","k","l","m",
               "n","o","p","q","r","s","t","u","v","w","x","y","z">>
LowerChar(c) ==
    IF \E i \in 1..Len(UpperCase) : UpperCase[i] = c
    THEN LowerCase[CHOOSE i \in 1..Len(UpperCase) : UpperCase[i] = c]
    ELSE c
\* strings.ToLower
ToLower(s) == [i \in 1..Len(s) |-> LowerChar(s[i])]

\* A variant of the digit run as in the pattern of the revision at
\* client.go:102, ([+-]\d{1,3}): at most three digits.
DigitRunEnd_atMost3(s, i) ==
    CHOOSE j \in i..Len(s) :
        /\ j <= i + 3
        /\ \A k \in (i+1)..j : IsDigit(s[k])
        /\ (j = i + 3 \/ j = Len(s) \/ ~IsDigit(s[j+1]))

\* The last index of the greedy \d+ run that starts right after position i
\* (i itself when no digit follows).
DigitRunEnd(s, i) ==
    CHOOSE j \in i..Len(s) :
        /\ \A k \in (i+1)..j : IsDigit(s[k])
        /\ (j = Len(s) \/ ~IsDigit(s[j+1]))

\* The positions at which the lazy (.*?)\" can end for a match that starts
\* at i: a closing quote with no newline before it ('.' matches no "\n").
Closers(s, i) ==
    LET e == DigitRunEnd(s, i)
    IN  IF /\ s[i] \in {"+", "-"}
           /\ e > i
           /\ e + 2 <= Len(s)
           /\ s[e+1] = ","
           /\ s[e+2] = "\""
        THEN {k \in (e+3)..Len(s) :
                /\ s[k] = "\""
                /\ \A m \in (e+3)..(k-1) : s[m] # "\n"}
        ELSE {}

Min(S) == CHOOSE x \in S : \A y \in S : x <= y

\* regexp.FindStringSubmatch: the leftmost match, <<whole, group 1, group 2>>,
\* or the empty tuple (nil) when the text has no match.
FindStringSubmatch(s) ==
    LET starts == {i \in 1..Len(s) : Closers(s, i) # {}}
    IN  IF starts = {} THEN <<>>
        ELSE LET i == Min(starts)
                 e == DigitRunEnd(s, i)
                 k == Min(Closers(s, i))
             IN  <<SubSeq(s, i, k), SubSeq(s, i, e), SubSeq(s, e+3, k-1)>>

RECURSIVE DigitsValue(_)
DigitsValue(ds) ==
    IF ds = <<>> THEN 0
    ELSE 10 * DigitsValue(SubSeq(ds, 1, Len(ds) - 1)) + DigitVal(ds[Len(ds)])

\* strconv.Atoi on a signed decimal (the regexp admits nothing else)
Atoi(g) ==
    IF g[1] = "-" THEN 0 - DigitsValue(Tail(g)) ELSE DigitsValue(Tail(g))

(***************************************************************************)
(* Values an operation returns.                                            *)
(***************************************************************************)
Nil == [kind |-> "nil"]
NotReturned == [kind |-> "none"]
TransportError(on) == [kind |-> "transport", on |-> on]
ExecFailed(cmd, cause) == [kind |-> "execFailed", cmd |-> cmd, cause |-> cause]
\* fmt.Errorf("invalid error format: %s", errRes)
InvalidFormat(text) == [kind |-> "invalidFormat", text |-> text]
\* The error type the tests name: InvalidFormatError("foo, bar, baz")
InvalidFormatError(text) == [kind |-> "InvalidFormatError", text |-> text]
CommandError(cmd, code, msg) ==
    [kind |-> "CommandError", cmd |-> cmd, code |-> code, msg |-> msg]
QueryResult(res) == [kind |-> "ok", res |-> res]
CtxErr == [kind |-> "ctxErr"]

confirmError(cmd, errRes) ==
    LET g == FindStringSubmatch(errRes)
    IN  IF g = <<>> THEN InvalidFormat(errRes)
        ELSE LET code == Atoi(g[2])
             IN  IF code = 0 THEN Nil
                 ELSE CommandError(cmd, code, ToLower(g[3]))

(***************************************************************************)
(* handler.go: bitRegexp = \+(\d+) and parseBit.                            *)
(***************************************************************************)
BitResult(bit) == [kind |-> "bit", bit |-> bit]
InvalidBit(text) == [kind |-> "invalidBit", text |-> text]
RangeError == [kind |-> "range"]

\* The positions at which \+(\d+) can match.
BitStarts(s) == {i \in 1..(Len(s) - 1) : s[i] = "+" /\ IsDigit(s[i+1])}

\* strconv.ParseUint(g[1], 10, 8) fails for a value that does not fit uint8.
parseBit(s) ==
    IF BitStarts(s) = {} THEN InvalidBit(s)
    ELSE LET i == Min(BitStarts(s))
             n == DigitsValue(SubSeq(s, i + 1, DigitRunEnd(s, i)))
         IN  IF n > 255 THEN RangeError ELSE BitResult(n)

\* fmt.Sprintf("%d", n) for an unsigned n
RECURSIVE FormatUint(_)
FormatUint(n) ==
    IF n < 10 THEN Digits[n + 1]
    ELSE FormatUint(n \div 10) \o Digits[(n % 10) + 1]

(***************************************************************************)
(* State.                                                                  *)
(***************************************************************************)
VARIABLES
    pc,          \* where each goroutine is
    call,        \* the operation the caller invoked last, with its arguments
    prevCmd,     \* ExecContext's cmd, handed to queryError ("" in other operations)
    result,      \* what the caller's last operation returned
    io,          \* per goroutine: the conn.Write/conn.Read calls of its current call
    werr,        \* per worker: err of its QueryContext
    ch,          \* per worker: the result channel of its WaitForComplete call
    ctxDone,     \* per worker: subCtx was done (deadline passed or ctx cancelled)
                 \* while its WaitForComplete call was waiting
    sentInTime,  \* per worker: its result was delivered while subCtx was not done
    cur,         \* the worker of the caller's current WaitForComplete call
    connClosed,  \* TCPClient.conn has been closed
    inq,         \* lines written to the connection, not yet taken by the instrument
    rx,          \* replies of the instrument, not yet read; each with the line
                 \* whose fault it reports (a record of the past, not sent)
    errq,        \* the instrument's error queue: each fault with the line
                 \* that generated it
    ncalls       \* operations issued so far

vars == <<pc, call, prevCmd, result, io, werr, ch, ctxDone, sentInTime, cur,
          connClosed, inq, rx, errq, ncalls>>

Init ==
    /\ pc = [p \in Procs |-> IF p = Caller THEN "idle" ELSE "unborn"]
    /\ call = [op |-> "none", args |-> <<>>]
    /\ prevCmd = ""
    /\ result = NotReturned
    /\ io = [p \in Procs |-> <<>>]
    /\ werr = [w \in Workers |-> NotReturned]
    /\ ch = [w \in Workers |-> <<>>]
    /\ ctxDone = [w \in Workers |-> FALSE]
    /\ sentInTime = [w \in Workers |-> FALSE]
    /\ cur = Caller
    /\ connClosed = FALSE
    /\ inq = <<>>
    /\ rx = <<>>
    /\ errq = <<>>
    /\ ncalls = 0

(***************************************************************************)
(* The connection.                                                         *)
(***************************************************************************)
WriteEvent(line, ok) == [op |-> "write", data |-> line, ok |-> ok]
ReadEvent(data, ok) == [op |-> "read", data |-> data, ok |-> ok]

\* The log of a goroutine's current call: a call that starts has logged nothing.
Log(p) == IF pc[p] \in {"idle", "spawned"} THEN <<>> ELSE io[p]

\* conn.Write fails on a closed connection and may fail on an open one.
WriteOutcomes == IF connClosed THEN {FALSE} ELSE BOOLEAN

\* conn.Read fails on a closed connection, may fail on an open one, and
\* otherwise blocks until the instrument has sent something.
ReadOutcomes == IF connClosed THEN {FALSE}
                ELSE IF rx = <<>> THEN {FALSE} ELSE BOOLEAN

Take(s, n) == IF Len(s) <= n THEN s ELSE SubSeq(s, 1, n)
Drop(s, n) == IF Len(s) <= n THEN <<>> ELSE SubSeq(s, n + 1, Len(s))

\* A variant of exec that tries a failed write a second time.
exec_retry(p, cmd, ok) ==
    /\ inq' = IF ok THEN Append(inq, cmd \o Terminator) ELSE inq
    /\ io' = [io EXCEPT ![p] =
                IF ok THEN Append(Log(p), WriteEvent(cmd \o Terminator, TRUE))
                ELSE Log(p) \o <<WriteEvent(cmd \o Terminator, FALSE),
                                 WriteEvent(cmd \o Terminator, FALSE)>>]

\* TCPClient.exec: one conn.Write of cmd and the terminator.
exec(p, cmd, ok) ==
    /\ inq' = IF ok THEN Append(inq, cmd \o Terminator) ELSE inq
    /\ io' = [io EXCEPT ![p] = Append(Log(p), WriteEvent(cmd \o Terminator, ok))]

\* A variant of the read with a buffer that grows to hold the whole response.
ReadData_whole == Head(rx).text

\* buf := make([]byte, 1024); l, err := c.conn.Read(buf); string(buf[:l])
ReadData == Take(Head(rx).text, BufSize)
connRead(p, ok) ==
    /\ rx' = IF ~ok THEN rx
             ELSE IF Len(Head(rx).text) > BufSize
                  THEN <<[Head(rx) EXCEPT !.text = Drop(@, BufSize)]>> \o Tail(rx)
                  ELSE Tail(rx)
    /\ io' = [io EXCEPT ![p] =
                Append(Log(p), ReadEvent(IF ok THEN ReadData ELSE <<>>, ok))]

(***************************************************************************)
(* Returning.                                                              *)
(***************************************************************************)
\* The caller's operation returns val; a worker's QueryContext returns err.
Finish(p, val) ==
    IF p = Caller
    THEN /\ pc' = [pc EXCEPT ![p] = "idle"]
         /\ result' = val
         /\ werr' = werr
    ELSE /\ pc' = [pc EXCEPT ![p] = "send"]
         /\ werr' = [werr EXCEPT ![p] = val]
         /\ result' = result

Goto(p, label) ==
    /\ pc' = [pc EXCEPT ![p] = label]
    /\ result' = IF p = Caller THEN NotReturned ELSE result
    /\ werr' = werr

\* A variant of queryError that reports the command it sent itself.
queryErrorResult_ownQuery(cmd, q) ==
    IF q.kind = "ok" THEN confirmError(ErrQuery, q.res) ELSE q

\* queryError after its QueryContext returned q = (res, err).
queryErrorResult(cmd, q) ==
    IF q.kind = "ok" THEN confirmError(cmd, q.res) ELSE q

\* A variant of the worker that drops err as well and reports success.
workerErr_dropped(q) == Nil

\* The worker keeps err and drops res:  _, err := h.QueryContext(...)
workerErr(q) == IF q.kind = "ok" THEN Nil ELSE q

\* Handler.Identify after its QueryContext returned q = (res, err):
\* if err != nil { return "", nil }
IdentifyResult(q) == IF q.kind = "ok" THEN q ELSE QueryResult(<<>>)

\* The Query... getters of Handler after their QueryContext returned q:
\* if err != nil { return 0, err }; return parseBit(res)
GetterResult(q) == IF q.kind = "ok" THEN parseBit(q.res) ELSE q

Getters == {"QueryEventStatusEnable", "QueryEventStatusRegister",
            "QueryServiceRequestEnable", "QueryStatusByteRegister"}

\* QueryContext returns q to the code that called it, in the operation the
\* caller is in.
Deliver(p, q) ==
    Finish(p, IF p # Caller THEN workerErr(q)
              ELSE IF call'.op = "Query" THEN q
              ELSE IF call'.op = "Identify" THEN IdentifyResult(q)
              ELSE IF call'.op \in Getters THEN GetterResult(q)
              ELSE queryErrorResult(prevCmd, q))

\* A variant of QueryContext that sends through ExecContext, as the revision
\* at client.go:155-169 did: the write of cmd is followed by the write of
\* the error query.
QueryContext_viaExecContext(p, cmd, ok) ==
    /\ inq' = IF ok THEN inq \o <<cmd \o Terminator, ErrQuery \o Terminator>>
              ELSE inq
    /\ io' = [io EXCEPT ![p] =
                IF ok THEN Log(p) \o <<WriteEvent(cmd \o Terminator, TRUE),
                                       WriteEvent(ErrQuery \o Terminator, TRUE)>>
                ELSE Append(Log(p), WriteEvent(cmd \o Terminator, FALSE))]
    /\ IF ok THEN Goto(p, "Read") ELSE Deliver(p, TransportError("write"))

\* QueryContext up to its write: exec, and the return on a failed write.
QueryContext(p, cmd, ok) ==
    /\ exec(p, cmd, ok)
    /\ IF ok THEN Goto(p, "Read") ELSE Deliver(p, TransportError("write"))

(***************************************************************************)
(* TCPClient: the caller's operations.                                     *)
(***************************************************************************)
Begin == pc[Caller] = "idle" /\ ncalls < MaxCalls /\ ncalls' = ncalls + 1

\* ExecContext up to the write of cmd; queryError follows a successful write.
ExecContext(cmd) ==
    /\ prevCmd' = cmd
    /\ \E ok \in WriteOutcomes :
          /\ exec(Caller, cmd, ok)
          /\ IF ok THEN Goto(Caller, "queryError")
             ELSE Finish(Caller, ExecFailed(cmd, TransportError("write")))
    /\ UNCHANGED <<ch, ctxDone, sentInTime, cur, connClosed, rx, errq>>

Exec ==
    /\ Begin
    /\ \E cmd \in Cmds :
          /\ call' = [op |-> "Exec", args |-> <<cmd>>]
          /\ ExecContext(cmd)

\* A variant of BulkExecContext that puts every command on a line of its own.
BulkExecContext_perLine(cmds) == ExecContext(Join(cmds, Terminator))

\* BulkExecContext: cmd := strings.Join(cmds, ";"); return c.ExecContext(ctx, cmd)
BulkExecContext(cmds) == ExecContext(Join(cmds, Separator))

BulkExec ==
    /\ Begin
    /\ \E cmds \in BulkArgs :
          /\ call' = [op |-> "BulkExec", args |-> cmds]
          /\ BulkExecContext(cmds)

\* A variant of ExecContext without the verification, as the revision at
\* unnamed/part_001:79-85 was: it returns nil after the write.
queryError_omitted ==
    /\ pc[Caller] = "queryError"
    /\ Finish(Caller, Nil)
    /\ UNCHANGED <<call, prevCmd, io, ch, ctxDone, sentInTime, cur, connClosed,
                   inq, rx, errq, ncalls>>

\* queryError: res, err := c.QueryContext(ctx, "SYST:ERR?"), up to its write.
queryError ==
    /\ pc[Caller] = "queryError"
    /\ UNCHANGED <<call, prevCmd, ch, ctxDone, sentInTime, cur, connClosed,
                   rx, errq, ncalls>>
    /\ \E ok \in WriteOutcomes : QueryContext(Caller, ErrQuery, ok)

Query ==
    /\ Begin
    /\ \E cmd \in Cmds :
          /\ call' = [op |-> "Query", args |-> <<cmd>>]
          /\ \E ok \in WriteOutcomes : QueryContext(Caller, cmd, ok)
    /\ prevCmd' = ""
    /\ UNCHANGED <<ch, ctxDone, sentInTime, cur, connClosed, rx, errq>>

\* QueryContext from its conn.Read on, in the caller or in a worker.
QueryContextRead(p) ==
    /\ pc[p] = "Read"
    /\ UNCHANGED <<call, prevCmd, ch, ctxDone, sentInTime, cur, connClosed,
                   inq, errq, ncalls>>
    /\ \E ok \in ReadOutcomes :
          /\ connRead(p, ok)
          /\ Deliver(p, IF ok THEN QueryResult(ReadData)
                        ELSE TransportError("read"))

\* PingContext returns nil.
PingContext == Finish(Caller, Nil)

Ping ==
    /\ Begin
    /\ call' = [op |-> "Ping", args |-> <<>>]
    /\ io' = [io EXCEPT ![Caller] = <<>>]
    /\ PingContext
    /\ prevCmd' = ""
    /\ UNCHANGED <<ch, ctxDone, sentInTime, cur, connClosed, inq, rx, errq>>

\* Close returns c.conn.Close(), which fails on a closed connection.
Close ==
    /\ Begin
    /\ call' = [op |-> "Close", args |-> <<>>]
    /\ io' = [io EXCEPT ![Caller] = <<>>]
    /\ connClosed' = TRUE
    /\ Finish(Caller, IF connClosed THEN TransportError("close") ELSE Nil)
    /\ prevCmd' = ""
    /\ UNCHANGED <<ch, ctxDone, sentInTime, cur, inq, rx, errq>>

(***************************************************************************)
(* Handler.WaitForComplete.                                                *)
(***************************************************************************)
Unborn == {w \in Workers : pc[w] = "unborn"}

\* subCtx, cancel := context.WithTimeout(ctx, timeout); ch := make(chan error, 1);
\* go func() {...}()
WaitForComplete ==
    /\ Begin
    /\ Unborn # {}
    /\ LET w == Min(Unborn)
       IN  /\ pc' = [pc EXCEPT ![Caller] = "select", ![w] = "spawned"]
           /\ cur' = w
    /\ call' = [op |-> "WaitForComplete", args |-> <<>>]
    /\ result' = NotReturned
    /\ io' = [io EXCEPT ![Caller] = <<>>]
    /\ prevCmd' = ""
    /\ UNCHANGED <<werr, ch, ctxDone, sentInTime, connClosed, inq, rx, errq>>

\* The worker: _, err := h.QueryContext(subCtx, "*WAI;*OPC?"), up to its write.
Worker(w) ==
    /\ pc[w] = "spawned"
    /\ \E ok \in WriteOutcomes : QueryContext(w, OpcQuery, ok)
    /\ UNCHANGED <<call, prevCmd, ch, ctxDone, sentInTime, cur, connClosed,
                   rx, errq, ncalls>>

\* The caller is blocked in the select of the call that started worker w.
Parked(w) == pc[Caller] = "parked" /\ cur = w

\* A send on ch proceeds when the buffer has room or a receiver is waiting.
CanSend(w) == Len(ch[w]) < ChanCap \/ Parked(w)

\* The worker: ch <- err.  A receiver blocked in the select takes the value
\* at once and WaitForComplete returns it.  (The deferred cancel then ends
\* subCtx, which nothing reads any more: QueryContext never looks at ctx.)
WorkerSend(w) ==
    /\ pc[w] = "send"
    /\ CanSend(w)
    /\ sentInTime' = [sentInTime EXCEPT ![w] = ~ctxDone[w]]
    /\ IF Parked(w)
       THEN /\ pc' = [pc EXCEPT ![w] = "done", ![Caller] = "idle"]
            /\ result' = werr[w]
            /\ UNCHANGED <<ch, ctxDone>>
       ELSE /\ pc' = [pc EXCEPT ![w] = "done"]
            /\ ch' = [ch EXCEPT ![w] = Append(@, werr[w])]
            /\ UNCHANGED <<result, ctxDone>>
    /\ UNCHANGED <<call, prevCmd, io, werr, cur, connClosed, inq, rx, errq,
                   ncalls>>

\* A variant of the select without the case for subCtx.Done():  return <-ch
Select_onlyChannel ==
    /\ pc[Caller] = "select"
    /\ \/ /\ ch[cur] # <<>>
          /\ result' = Head(ch[cur])
          /\ ch' = [ch EXCEPT ![cur] = Tail(@)]
          /\ pc' = [pc EXCEPT ![Caller] = "idle"]
          /\ UNCHANGED <<ctxDone, sentInTime>>
       \/ /\ ch[cur] = <<>>
          /\ pc' = [pc EXCEPT ![Caller] = "parked"]
          /\ UNCHANGED <<result, ch, ctxDone, sentInTime>>
    /\ UNCHANGED <<call, prevCmd, io, werr, cur, connClosed, inq, rx, errq,
                   ncalls>>

\* select { case err := <-ch: return err; case <-subCtx.Done(): return subCtx.Err() }
\* Of the cases that are ready one is chosen; with none ready the caller blocks.
Select ==
    /\ pc[Caller] = "select"
    /\ \/ /\ ch[cur] # <<>>
          /\ result' = Head(ch[cur])
          /\ ch' = [ch EXCEPT ![cur] = Tail(@)]
          /\ pc' = [pc EXCEPT ![Caller] = "idle"]
          /\ UNCHANGED <<ctxDone, sentInTime>>
       \/ /\ ctxDone[cur]
          /\ result' = CtxErr
          /\ pc' = [pc EXCEPT ![Caller] = "idle"]
          /\ UNCHANGED <<ch, ctxDone, sentInTime>>
       \/ /\ ch[cur] = <<>>
          /\ ~ctxDone[cur]
          /\ pc' = [pc EXCEPT ![Caller] = "parked"]
          /\ UNCHANGED <<result, ch, ctxDone, sentInTime>>
    /\ UNCHANGED <<call, prevCmd, io, werr, cur, connClosed, inq, rx, errq,
                   ncalls>>

\* The timer of subCtx fires, or the caller's ctx is cancelled.  A caller
\* blocked in the select returns subCtx.Err().
Deadline ==
    /\ pc[Caller] \in {"select", "parked"}
    /\ ~ctxDone[cur]
    /\ ctxDone' = [ctxDone EXCEPT ![cur] = TRUE]
    /\ IF pc[Caller] = "parked"
       THEN pc' = [pc EXCEPT ![Caller] = "idle"] /\ result' = CtxErr
       ELSE UNCHANGED <<pc, result>>
    /\ UNCHANGED <<call, prevCmd, io, werr, ch, sentInTime, cur, connClosed,
                   inq, rx, errq, ncalls>>

(***************************************************************************)
(* Handler: the operations that format a command and delegate.             *)
(***************************************************************************)
Bits == {0, 255}        \* bit uint8
Mems == {0, 9, 10}      \* mem uint8

\* A Handler method that passes cmd to QueryContext.
HandlerQuery(op, cmd) ==
    /\ Begin
    /\ call' = [op |-> op, args |-> <<>>]
    /\ \E ok \in WriteOutcomes : QueryContext(Caller, cmd, ok)
    /\ prevCmd' = ""
    /\ UNCHANGED <<ch, ctxDone, sentInTime, cur, connClosed, rx, errq>>

\* return h.BulkExec("*RST", "CLS")
Reset ==
    /\ Begin
    /\ call' = [op |-> "Reset", args |-> <<>>]
    /\ BulkExecContext(<<"*RST", "CLS">>)

\* return h.ExecContext(ctx, "*TRG")
Trigger ==
    /\ Begin
    /\ call' = [op |-> "Trigger", args |-> <<>>]
    /\ ExecContext("*TRG")

\* res, err := h.QueryContext(ctx, "*IDN?")
Identify == HandlerQuery("Identify", "*IDN?")

\* cmd := fmt.Sprintf("*ESE %d", bit); return h.Exec(cmd)
SetEventStatusEnable ==
    /\ Begin
    /\ \E bit \in Bits :
          /\ call' = [op |-> "SetEventStatusEnable", args |-> <<bit>>]
          /\ ExecContext("*ESE " \o FormatUint(bit))

QueryEventStatusEnable == HandlerQuery("QueryEventStatusEnable", "*ESE?")

QueryEventStatusRegister == HandlerQuery("QueryEventStatusRegister", "*ESR?")

\* cmd := fmt.Sprintf("*SRE %d", bit); return h.ExecContext(ctx, cmd)
SetServiceRequestEnable ==
    /\ Begin
    /\ \E bit \in Bits :
          /\ call' = [op |-> "SetServiceRequestEnable", args |-> <<bit>>]
          /\ ExecContext("*SRE " \o FormatUint(bit))

QueryServiceRequestEnable == HandlerQuery("QueryServiceRequestEnable", "*SRE?")

QueryStatusByteRegister == HandlerQuery("QueryStatusByteRegister", "*STB?")

\* cmd := fmt.Sprintf("*RCL %d", mem); return h.ExecContext(ctx, cmd)
Recall ==
    /\ Begin
    /\ \E mem \in Mems :
          /\ call' = [op |-> "Recall", args |-> <<mem>>]
          /\ ExecContext("*RCL " \o FormatUint(mem))

\* cmd := fmt.Sprintf("*SAV %d", mem); return h.ExecContext(ctx, cmd)
Save ==
    /\ Begin
    /\ \E mem \in Mems :
          /\ call' = [op |-> "Save", args |-> <<mem>>]
          /\ ExecContext("*SAV " \o FormatUint(mem))

(***************************************************************************)
(* The instrument.                                                         *)
(***************************************************************************)
Line(cmd) == cmd \o Terminator
IdnLine == Line("*IDN?")
BitLines == {Line("*ESE?"), Line("*ESR?"), Line("*SRE?"), Line("*STB?")}
QueryLines ==
    {Line(OpcQuery)} \cup
    {Line(Join(cs, Separator)) :
        cs \in {b \in BulkArgs : \E i \in DOMAIN b : b[i] \in QueryCmds}}
    \cup {IdnLine} \cup BitLines
ReplyTo(line) == IF line = Line(OpcQuery) THEN OpcText ELSE MeasText
IdnText == <<"A", ",", "B", ",", "0", ",", "1", "\n">>
\* A register value, one that does not fit eight bits, one without its sign.
BitTexts == {<<"+","3","2","\n">>, <<"+","2","5","6","\n">>, <<"3","2","\n">>}
Replies(line) ==
    IF line = IdnLine THEN {IdnText}
    ELSE IF line \in BitLines THEN BitTexts
    ELSE {ReplyTo(line)}
Fault == "-101"
FaultSeqs == {[i \in 1..n |-> Fault] : n \in 0..MaxFaults}
\* A reply on its way to the client; about is the line whose fault the reply
\* reports ("" when it reports none).
Reply(text, about) == [text |-> text, about |-> about]

\* The instrument takes the next line: SYST:ERR? takes the oldest entry off
\* the error queue and reports it in one of the two shapes (or reports no
\* error); any other line may queue faults, and a query is answered.  With
\* record set, each fault is kept with the line that generated it.
InstrumentTakes(record) ==
    /\ ~connClosed
    /\ inq # <<>>
    /\ inq' = Tail(inq)
    /\ IF Head(inq) = Line(ErrQuery)
       THEN /\ IF errq = <<>>
               THEN rx' = Append(rx, Reply(NoErrorText, ""))
               ELSE \E report \in FaultTexts :
                       rx' = Append(rx, Reply(report, Head(errq).by))
            /\ errq' = IF errq = <<>> THEN <<>> ELSE Tail(errq)
       ELSE /\ \E fs \in FaultSeqs :
                  errq' = errq \o [i \in 1..Len(fs) |->
                                     [code |-> fs[i],
                                      by |-> IF record THEN Head(inq) ELSE ""]]
            /\ IF Head(inq) \in QueryLines
               THEN \E text \in Replies(Head(inq)) :
                       rx' = Append(rx, Reply(text, ""))
               ELSE rx' = rx
    /\ UNCHANGED <<pc, call, prevCmd, result, io, werr, ch, ctxDone,
                   sentInTime, cur, connClosed, ncalls>>

Instrument == InstrumentTakes(FALSE)

\* The same instrument, observed: it is known of every fault which line
\* generated it.
ObservedInstrument == InstrumentTakes(TRUE)

(***************************************************************************)
(* A peer that answers with any text.                                      *)
(***************************************************************************)
RECURSIVE Decimal(_)
Decimal(n) ==
    IF n < 10 THEN <<Digits[n + 1]>>
    ELSE Decimal(n \div 10) \o <<Digits[(n % 10) + 1]>>
\* The decimal numeral of n with its sign, as an instrument writes a code.
SignedDecimal(n) ==
    IF n < 0 THEN <<"-">> \o Decimal(0 - n) ELSE <<"+">> \o Decimal(n)

Codes == {-101, -1, 0, 7, 1234}
ZeroCodes == {<<"+","0">>, <<"-","0">>, <<"+","0","0">>}
CodeTexts == {SignedDecimal(c) : c \in Codes} \cup ZeroCodes

MsgChars == {"e", "R", " ", "\"", "\n"}
Msgs == UNION {[1..n -> MsgChars] : n \in 0..MaxMsg}

\* The two shapes of an error report.
Quoted(code, msg) == code \o <<",", "\"">> \o msg \o <<"\"">>
Unquoted(code, msg) == code \o <<",", " ">> \o msg

Garbage == {<<"f","o","o",","," ","b","a","r",","," ","b","a","z">>,
            MeasText, OpcText}
Reports ==
    {Quoted(c, m) : c \in CodeTexts, m \in Msgs}
        \cup {Unquoted(c, m) : c \in CodeTexts, m \in Msgs}
        \cup {NoErrorText, QuotedFault, UnquotedFault}
        \cup Garbage

\* A response longer than the receive buffer, and one that just fills it.
LongText == [i \in 1..(BufSize + 2) |-> "7"]
FullText == [i \in 1..BufSize |-> "7"]
Responses == {MeasText, FullText, LongText}

\* The peer takes the next line and answers a query with a response of any
\* length.
Peer ==
    /\ ~connClosed
    /\ inq # <<>>
    /\ inq' = Tail(inq)
    /\ IF Head(inq) \in QueryLines
       THEN \E text \in Responses : rx' = Append(rx, Reply(text, ""))
       ELSE rx' = rx
    /\ UNCHANGED <<pc, call, prevCmd, result, io, werr, ch, ctxDone,
                   sentInTime, cur, connClosed, errq, ncalls>>

\* Exec(cmd) has written cmd and "SYST:ERR?"; the peer's answer, any text, is
\* there to be read.
DecodeInit ==
    /\ \E cmd \in Cmds, text \in Reports :
          /\ call = [op |-> "Exec", args |-> <<cmd>>]
          /\ prevCmd = cmd
          /\ io = [p \in Procs |->
                     IF p = Caller
                     THEN <<WriteEvent(Line(cmd), TRUE),
                            WriteEvent(Line(ErrQuery), TRUE)>>
                     ELSE <<>>]
          /\ rx = <<Reply(text, "")>>
    /\ pc = [p \in Procs |-> IF p = Caller THEN "Read" ELSE "unborn"]
    /\ result = NotReturned
    /\ werr = [w \in Workers |-> NotReturned]
    /\ ch = [w \in Workers |-> <<>>]
    /\ ctxDone = [w \in Workers |-> FALSE]
    /\ sentInTime = [w \in Workers |-> FALSE]
    /\ cur = Caller
    /\ connClosed = FALSE
    /\ inq = <<>>
    /\ errq = <<>>
    /\ ncalls = 1

(***************************************************************************)
(* Specification.                                                          *)
(***************************************************************************)
Next ==
    \/ Exec
    \/ BulkExec
    \/ queryError
    \/ Query
    \/ \E p \in Procs : QueryContextRead(p)
    \/ Ping
    \/ Close
    \/ WaitForComplete
    \/ \E w \in Workers : Worker(w)
    \/ \E w \in Workers : WorkerSend(w)
    \/ Select
    \/ Deadline
    \/ Instrument

Spec == Init /\ [][Next]_vars

\* The caller's goroutine is scheduled: a select that can proceed does.
FairSpec == Spec /\ WF_vars(Select)

\* One goroutine calling Exec, BulkExec and Query, and the observed instrument.
QueueNext ==
    \/ Exec
    \/ BulkExec
    \/ queryError
    \/ Query
    \/ QueryContextRead(Caller)
    \/ ObservedInstrument

QueueSpec == Init /\ [][QueueNext]_vars

\* One goroutine calling the Handler's operations and Close.
HandlerNext ==
    \/ Reset
    \/ Trigger
    \/ Identify
    \/ SetEventStatusEnable
    \/ QueryEventStatusEnable
    \/ QueryEventStatusRegister
    \/ SetServiceRequestEnable
    \/ QueryServiceRequestEnable
    \/ QueryStatusByteRegister
    \/ Recall
    \/ Save
    \/ Close
    \/ queryError
    \/ QueryContextRead(Caller)
    \/ Instrument

HandlerSpec == Init /\ [][HandlerNext]_vars

\* queryError's read and confirmError, on any text.
DecodeNext == QueryContextRead(Caller)

DecodeSpec == DecodeInit /\ [][DecodeNext]_vars

\* One goroutine calling Query, and the peer.
PeerNext ==
    \/ Query
    \/ QueryContextRead(Caller)
    \/ Peer

PeerSpec == Init /\ [][PeerNext]_vars

(***************************************************************************)
(* Properties.                                                             *)
(***************************************************************************)
Returned(op) == pc[Caller] = "idle" /\ call.op = op
CallerLog == io[Caller]
Writes(log) == {i \in 1..Len(log) : log[i].op = "write"}
Reads(log) == {i \in 1..Len(log) : log[i].op = "read"}

\* c1;c2;...;cn, built from the left.
RECURSIVE Joined(_, _)
Joined(cs, n) ==
    IF n = 0 THEN ""
    ELSE IF n = 1 THEN cs[1]
    ELSE Joined(cs, n - 1) \o ";" \o cs[n]

\* C1: an Exec(cmd) that returned success or a CommandError made exactly
\* three calls on the connection, all successful and in this order: the
\* write of cmd and one "\n", the write of "SYST:ERR?" and one "\n", one read.
C1_ExecTwoWritesOneRead ==
    (Returned("Exec") /\ result.kind \in {"nil", "CommandError"}) =>
        /\ Len(CallerLog) = 3
        /\ CallerLog[1] = [op |-> "write", data |-> call.args[1] \o "\n", ok |-> TRUE]
        /\ CallerLog[2] = [op |-> "write", data |-> "SYST:ERR?\n", ok |-> TRUE]
        /\ CallerLog[3].op = "read"
        /\ CallerLog[3].ok

C1_Witness ==
    /\ Returned("Exec")
    /\ result.kind = "CommandError"
    /\ call.args[1] = "CONF"

\* C2: a Query(cmd), in its caller or finished, has made at most one write,
\* of cmd and one "\n" and never of "SYST:ERR?", and at most one read after
\* it; when it returns a response, that response is what its one read
\* returned.  The verification of an Exec (the same code after one more write)
\* makes at most two writes and one read.
C2_QueryOneWriteOneRead ==
    /\ call.op = "Query" =>
          /\ Len(CallerLog) <= 2
          /\ Writes(CallerLog) \subseteq {1}
          /\ Reads(CallerLog) \subseteq {2}
          /\ \A i \in Writes(CallerLog) :
                /\ CallerLog[i].data = call.args[1] \o "\n"
                /\ CallerLog[i].data # "SYST:ERR?\n"
          /\ pc[Caller] = "idle" => Len(CallerLog) >= 1
          /\ (pc[Caller] = "idle" /\ result.kind = "ok") =>
                CallerLog = <<[op |-> "write", data |-> call.args[1] \o "\n", ok |-> TRUE],
                              [op |-> "read", data |-> result.res, ok |-> TRUE]>>
    /\ call.op \in {"Exec", "BulkExec"} =>
          /\ Len(CallerLog) <= 3
          /\ Writes(CallerLog) \subseteq {1, 2}
          /\ Reads(CallerLog) \subseteq {3}

C2_Witness ==
    /\ Returned("Query")
    /\ result.kind = "ok"
    /\ Len(CallerLog) = 2

\* C3: a failed write or read is the last call an Exec, BulkExec or Query
\* makes on the connection, and the operation has returned an error: a failed
\* first write leaves one write attempt, no "SYST:ERR?" and no read; a Query
\* whose read failed made no further write.
C3_FailureReturnsAtOnce ==
    call.op \in {"Exec", "BulkExec", "Query"} =>
        \A i \in 1..Len(CallerLog) :
            ~CallerLog[i].ok =>
                /\ i = Len(CallerLog)
                /\ pc[Caller] = "idle"
                /\ result.kind \in {"transport", "execFailed"}
                /\ (i = 1 /\ call.op # "Query") => result.kind = "execFailed"
                /\ Cardinality(Writes(CallerLog)) =
                      IF CallerLog[i].op = "write" THEN i ELSE i - 1

C3_Witness ==
    /\ Returned("Exec")
    /\ Len(CallerLog) = 1
    /\ ~CallerLog[1].ok
    /\ ~connClosed

\* C4: a BulkExec(c1, ..., cn) writes first, and once, the line c1;...;cn
\* and one "\n", then "SYST:ERR?" and one "\n", then reads once; when no call
\* on the connection failed it has made exactly these three calls.
C4_BulkExecOneLine ==
    call.op = "BulkExec" =>
        /\ Len(CallerLog) <= 3
        /\ Len(CallerLog) >= 1 =>
              /\ CallerLog[1].op = "write"
              /\ CallerLog[1].data = Joined(call.args, Len(call.args)) \o "\n"
        /\ Len(CallerLog) >= 2 =>
              /\ CallerLog[2].op = "write"
              /\ CallerLog[2].data = "SYST:ERR?\n"
        /\ Len(CallerLog) >= 3 => CallerLog[3].op = "read"
        /\ (pc[Caller] = "idle" /\ result.kind \notin {"transport", "execFailed"}) =>
              /\ Len(CallerLog) = 3
              /\ \A i \in 1..3 : CallerLog[i].ok

C4_Witness ==
    /\ Returned("BulkExec")
    /\ call.args = <<"MEAS?", "CONF">>
    /\ result.kind = "nil"
    /\ CallerLog[1].data = "MEAS?;CONF\n"

\* C5: a CommandError returned by Exec(cmd) carries cmd, one returned by
\* BulkExec(c1, ..., cn) carries c1;...;cn; neither carries "SYST:ERR?", and
\* that of a batch of two or more carries none of its commands alone.
C5_CommandErrorCarriesCommand ==
    (pc[Caller] = "idle" /\ result.kind = "CommandError") =>
        /\ call.op \in {"Exec", "BulkExec"}
        /\ call.op = "Exec" => result.cmd = call.args[1]
        /\ call.op = "BulkExec" => result.cmd = Joined(call.args, Len(call.args))
        /\ result.cmd # "SYST:ERR?"
        /\ (call.op = "BulkExec" /\ Len(call.args) >= 2) =>
              \A i \in 1..Len(call.args) : result.cmd # call.args[i]

C5_Witness ==
    /\ Returned("BulkExec")
    /\ result.kind = "CommandError"
    /\ Len(call.args) = 2
    /\ result.cmd = "CONF;MEAS?"

\* C6: once the connection is closed, an Exec, BulkExec, Query or Ping
\* returns an error and none of its calls on the connection succeeds.
C6_ClosedSessionFails ==
    (connClosed /\ pc[Caller] = "idle"
        /\ call.op \in {"Exec", "BulkExec", "Query", "Ping"}) =>
        /\ result.kind \notin {"nil", "ok"}
        /\ \A i \in 1..Len(CallerLog) : ~CallerLog[i].ok

\* A goroutine has written a command and has not yet finished the read of
\* its response.
InFlight(p) == pc[p] \in {"queryError", "Read"}

\* C7: at most one command/response cycle is in flight on the connection.
C7_AtMostOneInFlight == Cardinality({p \in Procs : InFlight(p)}) <= 1

InWait == call.op = "WaitForComplete" /\ pc[Caller] \in {"select", "parked"}

\* C8 as stated: when subCtx was done before the query delivered a result,
\* the WaitForComplete that returns returns the timeout error.
C8_TimeoutOncePastDeadline ==
    [][(pc[Caller] = "select" /\ ctxDone[cur] /\ ~sentInTime[cur]
            /\ pc'[Caller] = "idle")
          => result' = CtxErr]_vars

\* C8, amended: WaitForComplete never blocks once subCtx is done: a caller
\* blocked in the select is woken with the timeout error, a caller that
\* reaches the select afterwards does not block and returns; what it returns
\* is the timeout error unless the worker's result is already in the channel.
C8_NeverBlocksPastDeadline ==
    /\ [](pc[Caller] = "parked" => ~ctxDone[cur])
    /\ [][(pc[Caller] = "parked" /\ ctxDone'[cur])
             => (pc'[Caller] = "idle" /\ result' = CtxErr)]_vars
    /\ [][(pc[Caller] = "select" /\ ctxDone[cur] /\ pc'[Caller] # "select")
             => /\ pc'[Caller] = "idle"
                /\ (ch[cur] = <<>> => result' = CtxErr)
                /\ result' \in {CtxErr} \cup {ch[cur][i] : i \in 1..Len(ch[cur])}]_vars
    /\ (InWait /\ ctxDone[cur]) ~> pc[Caller] = "idle"

\* The instrument has not answered; the caller has its timeout.
C8_Witness ==
    /\ Returned("WaitForComplete")
    /\ result = CtxErr
    /\ pc[cur] = "Read"
    /\ inq = <<"*WAI;*OPC?\n">>
    /\ rx = <<>>

\* What the worker's query came to, by its calls on the connection: nil when
\* the write and the read succeeded, the failed call's error otherwise.
QueryOutcome(w) ==
    LET last == io[w][Len(io[w])]
    IN  IF last.ok /\ last.op = "read" THEN [kind |-> "nil"]
        ELSE [kind |-> "transport", on |-> last.op]

\* C9 as stated: when the worker delivered its result before subCtx was done,
\* WaitForComplete returns that result.
C9_ResultDeliveredInTimeIsReturned ==
    (Returned("WaitForComplete") /\ pc[cur] = "done" /\ sentInTime[cur]) =>
        result = QueryOutcome(cur)

\* C9, amended: a WaitForComplete that returns while subCtx is not done returns
\* exactly the result of its query (nil, or the error of the failed write or
\* read); it returns the timeout error only when subCtx is done, and nothing
\* else ever; each call writes "*WAI;*OPC?" and one "\n" exactly once.
C9_ResultOrTimeout ==
    \A w \in Workers :
        /\ Writes(io[w]) \subseteq {1}
        /\ \A i \in Writes(io[w]) : io[w][i].data = "*WAI;*OPC?\n"
        /\ pc[w] \notin {"unborn", "spawned"} => Writes(io[w]) = {1}
        /\ (Returned("WaitForComplete") /\ cur = w) =>
              /\ result = CtxErr => ctxDone[w]
              /\ result # CtxErr => (pc[w] = "done" /\ result = QueryOutcome(w))

\* The reply came in time and the caller has the query's nil.
C9_Witness ==
    /\ Returned("WaitForComplete")
    /\ pc[cur] = "done"
    /\ sentInTime[cur]
    /\ ~ctxDone[cur]
    /\ Len(io[cur]) = 2
    /\ result = Nil

\* C10: the worker's send on the result channel can always proceed, also
\* after the caller has returned, and the channel never holds more than one
\* value.
C10_SendNeverBlocks ==
    \A w \in Workers :
        /\ pc[w] = "send" => ENABLED WorkerSend(w)
        /\ Len(ch[w]) <= 1

\* The caller has returned its timeout; the worker is about to send.
C10_Witness ==
    /\ Returned("WaitForComplete")
    /\ result = CtxErr
    /\ pc[cur] = "send"

\* The WaitForComplete call that started worker w has returned the timeout
\* error: the caller has left the select and nobody took the worker's result
\* (the worker has not sent it, or it lies in the channel).
TimedOut(w) ==
    /\ pc[w] # "unborn"
    /\ ~(cur = w /\ pc[Caller] \in {"select", "parked"})
    /\ (pc[w] # "done" \/ ch[w] # <<>>)

\* C11: after a WaitForComplete has timed out, the reply to its abandoned
\* "*WAI;*OPC?" is discarded: a later Query never returns it and returns the
\* reply to its own command, and a later Exec or BulkExec never reads it as
\* its error report.
C11_AbandonedReplyDiscarded ==
    ((\E w \in Workers : TimedOut(w)) /\ pc[Caller] = "idle") =>
        /\ (call.op = "Query" /\ result.kind = "ok") =>
              /\ result.res # OpcText
              /\ call.args[1] \in QueryCmds => result.res = MeasText
        /\ call.op \in {"Exec", "BulkExec"} =>
              \A i \in Reads(CallerLog) : CallerLog[i].data # OpcText

\* C17: a CommandError that Exec(cmd) returns reports a fault that the line
\* of cmd generated, not one an earlier line left in the error queue.
C17_ErrorBelongsToCommand ==
    [][(pc[Caller] = "Read" /\ call.op = "Exec" /\ pc'[Caller] = "idle"
            /\ result'.kind = "CommandError")
          => Head(rx).about = call.args[1] \o "\n"]_vars

\* An Exec whose read of the error report succeeded, and the text it read.
ExecRead == Returned("Exec") /\ Len(CallerLog) = 3 /\ CallerLog[3].ok
Report == CallerLog[3].data

HasQuote(m) == \E i \in 1..Len(m) : m[i] = "\""
HasBreak(m) == \E i \in 1..Len(m) : m[i] = "\n"
\* A message of one line without a double quote.
PlainMsgs == {m \in Msgs : ~HasQuote(m) /\ ~HasBreak(m)}
IsLower(m) == \A i \in 1..Len(m) : \A k \in 1..Len(UpperCase) : m[i] # UpperCase[k]

\* C12: an error report of either shape, <code>,"<msg>" or <code>, <msg>,
\* with a code other than 0 makes Exec(cmd) fail with the CommandError of
\* cmd, the code as an integer and msg in lowercase.
C12_DecodesBothShapes ==
    ExecRead =>
        \A c \in Codes \ {0} : \A m \in PlainMsgs :
            Report \in {Quoted(SignedDecimal(c), m), Unquoted(SignedDecimal(c), m)}
                => result = CommandError(call.args[1], c, ToLower(m))

\* C13: a text of neither shape makes Exec fail with the InvalidFormatError
\* that carries the text as it was read.
C13_InvalidFormatCarriesText ==
    (ExecRead /\ Report \in Garbage) => result = InvalidFormatError(Report)

\* C14: an error report of either shape whose code is 0, whatever its
\* message, makes Exec succeed.
C14_ZeroCodeIsSuccess ==
    ExecRead =>
        \A z \in ZeroCodes : \A m \in PlainMsgs :
            Report \in {Quoted(z, m), Unquoted(z, m)} => result = Nil

\* C15 as stated: the report built from any code other than 0 and any
\* lowercase message decodes to that code and that message.
C15_RoundTrip ==
    ExecRead =>
        \A c \in Codes \ {0} : \A m \in {n \in Msgs : IsLower(n)} :
            Report = Quoted(SignedDecimal(c), m)
                => result = CommandError(call.args[1], c, m)

\* C15, amended: the report built from any code other than 0 and any
\* lowercase message of one line without a double quote decodes to that code
\* and that message.
C15_RoundTripWithoutQuote ==
    ExecRead =>
        \A c \in Codes \ {0} : \A m \in {n \in PlainMsgs : IsLower(n)} :
            Report = Quoted(SignedDecimal(c), m)
                => result = CommandError(call.args[1], c, m)

C15_Witness ==
    /\ ExecRead
    /\ Report = <<"+","1","2","3","4",",","\"","e"," ","\"">>
    /\ result = [kind |-> "CommandError", cmd |-> call.args[1], code |-> 1234,
                 msg |-> <<"e"," ">>]

\* C18: a Query whose read succeeded returns success with the first 1024
\* bytes of the response at most, also when the response is longer; it reads
\* once and leaves the rest on the connection.
C18_TruncatedNotFailed ==
    [][(pc[Caller] = "Read" /\ call.op = "Query" /\ pc'[Caller] = "idle")
          => /\ Len(io'[Caller]) = 2
             /\ Reads(io'[Caller]) = {2}
             /\ io'[Caller][2].ok =>
                   /\ result'.kind = "ok"
                   /\ Len(result'.res) <= 1024
                   /\ Len(result'.res) =
                         IF Len(Head(rx).text) > 1024 THEN 1024
                         ELSE Len(Head(rx).text)
                   /\ \A i \in 1..Len(result'.res) :
                         result'.res[i] = Head(rx).text[i]
                   /\ Len(Head(rx).text) > 1024 =>
                         /\ Len(rx') = Len(rx)
                         /\ Len(Head(rx').text) = Len(Head(rx).text) - 1024
                   /\ Len(Head(rx).text) <= 1024 => rx' = Tail(rx)]_vars

\* A response of 1026 bytes: the Query has returned 1024, 2 are left.
C18_Witness ==
    /\ Returned("Query")
    /\ result.kind = "ok"
    /\ Len(result.res) = 1024
    /\ Len(CallerLog) = 2
    /\ rx # <<>>
    /\ Len(Head(rx).text) = 2

\* C16: a Ping writes nothing and reads nothing, leaves the connection and
\* the instrument as they were, and returns success only when the connection
\* is alive.
C16_PingChecksWithoutEffect ==
    [][(pc[Caller] = "idle" /\ ncalls' = ncalls + 1 /\ call'.op = "Ping")
          => /\ io'[Caller] = <<>>
             /\ UNCHANGED <<connClosed, inq, rx, errq>>
             /\ pc'[Caller] = "idle"
             /\ result' = Nil => ~connClosed]_vars

HandlerExecs == {"Reset", "Trigger", "SetEventStatusEnable",
                 "SetServiceRequestEnable", "Recall", "Save"}
HandlerQueries == {"Identify"} \cup Getters

\* C19: a Handler operation whose Exec or Query failed (a write or a read
\* failed, or the error report was not "no error") returns an error.
C19_HandlerReturnsError ==
    (pc[Caller] = "idle" /\ call.op \in HandlerExecs \cup HandlerQueries) =>
        /\ (\E i \in 1..Len(CallerLog) : ~CallerLog[i].ok) =>
              result.kind \notin {"nil", "ok", "bit"}
        /\ (call.op \in HandlerExecs /\ Len(CallerLog) = 3 /\ CallerLog[3].ok
                /\ confirmError("", CallerLog[3].data) # Nil) =>
              result.kind \notin {"nil", "ok", "bit"}

\* C20: Reset writes one command line, "*RST;*CLS" and one "\n", and then goes
\* through the verification of an Exec: "SYST:ERR?" and one "\n", one read.
C20_ResetSendsRstCls ==
    call.op = "Reset" =>
        /\ Len(CallerLog) <= 3
        /\ pc[Caller] = "idle" => Len(CallerLog) >= 1
        /\ Len(CallerLog) >= 1 =>
              /\ CallerLog[1].op = "write"
              /\ CallerLog[1].data = "*RST;*CLS\n"
        /\ Len(CallerLog) >= 2 =>
              /\ CallerLog[2].op = "write"
              /\ CallerLog[2].data = "SYST:ERR?\n"
        /\ Len(CallerLog) >= 3 => CallerLog[3].op = "read"

\* C21: Save(mem) and Recall(mem) with mem above 9 return an error and write
\* nothing; with mem from 0 to 9 they write "*SAV <mem>" or "*RCL <mem>" and
\* one "\n", once, as their first call on the connection.
C21_MemoryLocationChecked ==
    (pc[Caller] = "idle" /\ call.op \in {"Save", "Recall"}) =>
        LET mem == call.args[1]
            head == IF call.op = "Save" THEN "*SAV " ELSE "*RCL "
            numeral == <<"0", "1", "2", "3", "4", "5", "6", "7", "8", "9">>
        IN  /\ mem > 9 =>
                  /\ CallerLog = <<>>
                  /\ result.kind \notin {"nil", "ok", "bit"}
            /\ mem <= 9 =>
                  /\ Len(CallerLog) >= 1
                  /\ CallerLog[1].op = "write"
                  /\ CallerLog[1].data = head \o numeral[mem + 1] \o "\n"
                  /\ \A i \in Writes(CallerLog) :
                        CallerLog[i].data = CallerLog[1].data => i = 1

====
